---- MODULE Spec2Model ----
(***************************************************************************)
(* A model of src/src/fetch_spot_data.go.  The file holds two iterations   *)
(* of the pipeline:                                                        *)
(*   - lines   1-214, the concurrent iteration: one goroutine per region,  *)
(*     a mutex around the shared map and candidate pool, a WaitGroup join, *)
(*     and a main that re-creates the output file on every run;            *)
(*   - lines 216-375, the sequential iteration: regions fetched in a loop, *)
(*     every offer pooled, and a main that writes only when dataChanged.   *)
(* Definitions of the first carry the source's names, those of the second  *)
(* the suffix 2.                                                           *)
(*                                                                         *)
(* Specifications.  Spec: runs of the first iteration; SpecRepeated: the   *)
(* same on a directory with a repeated code; SpecFair: one run of the      *)
(* first iteration under weak fairness; Spec2: runs of the second          *)
(* iteration; SpecDeals and SpecRegions: getSpotDeals and fetchRegions     *)
(* called alone, both iterations on one drawn body.                        *)
(*                                                                         *)
(* Representation.  A Go string that the code parses is a sequence of      *)
(* one-character strings.  A float64 price is an exact number of           *)
(* hundredths; a price per vCPU is a fraction [n, d] in lowest terms and   *)
(* is compared by cross-multiplication (float rounding is not modelled).   *)
(* A region code is a sequence of letter numbers (a = 1 .. z = 26), so     *)
(* that sort.Strings is a lexicographic comparison.                        *)
(***************************************************************************)
EXTENDS Integers, Sequences, FiniteSets, TLC

VARIABLES
    pc,          \* position of main / fetchSpotData
    clock,       \* wall clock, in ticks
    directory,   \* the region directory document served to this run
    regions,     \* result of fetchRegions
    next,        \* index of the range loop over regions
    tpc,         \* position of the goroutine (or loop body) of regions[i]
    deals,       \* deals[i]: what getSpotDeals returned to task i
    response,    \* response[i]: the pricing response served to task i
    snap,        \* snap[i]: task i's private copy of globalDeals during append
    entered,     \* entered[i]: how many times task i acquired mu
    attempts,    \* attempts[i]: how many requests task i has issued
    mu,          \* holder of the mutex, 0 when free
    wg,          \* WaitGroup counter
    spotData,    \* the SpotData under construction
    globalDeals, \* the candidate pool (globalDeals / allInstances)
    file,        \* docs/spot_data.json
    oldFile,     \* docs/spot_data.json as it was when the run started
    prevResp,    \* the responses served to the previous run
    prevDir,     \* the directory document served to the previous run
    changed,     \* second iteration: what dataChanged returned to main
    runs,        \* number of runs started
    q_in,        \* a function called alone: the body served to it
    q_out,       \* a function called alone: result of the first iteration
    q_out2       \* a function called alone: result of the second iteration

vars == << pc, clock, directory, regions, next, tpc, deals, response, snap,
           entered, attempts, mu, wg, spotData, globalDeals, file, oldFile,
           prevResp, prevDir, changed, runs, q_in, q_out, q_out2 >>

----
\* Bounds of the model.

\* Longest Prices array drawn for getSpotDeals checked alone.
MaxOffers == 3

\* Number of runs of the pipeline in one behaviour.
MaxRuns == 2

\* Last tick of the wall clock.
MaxClock == 2

\* Clock ticks in one second (RFC3339 keeps whole seconds).
TicksPerSecond == 2

----
\* Program constants.

\* len(globalDeals) > 5, globalDeals[:5]
TopN == 5

\* savingsRate > 50
SavingsThreshold == 50

----
\* Strings, strconv and sort.

SeqOf(S, n) == UNION { [1..k -> S] : k \in 0..n }

Range(s) == { s[i] : i \in 1..Len(s) }

Min(a, b) == IF a < b THEN a ELSE b

DigitChars == << "0", "1", "2", "3", "4", "5", "6", "7", "8", "9" >>

IsDigit(c) == \E d \in 1..10 : DigitChars[d] = c

DigitVal(c) == (CHOOSE d \in 1..10 : DigitChars[d] = c) - 1

AllDigits(s) == \A i \in 1..Len(s) : IsDigit(s[i])

RECURSIVE DecimalValue(_)
DecimalValue(s) ==
    IF s = << >> THEN 0
    ELSE 10 * DecimalValue(SubSeq(s, 1, Len(s) - 1)) + DigitVal(s[Len(s)])

\* strings.TrimSuffix: one trailing occurrence of suffix is removed.
TrimSuffix(s, suffix) ==
    IF Len(s) >= Len(suffix)
       /\ SubSeq(s, Len(s) - Len(suffix) + 1, Len(s)) = suffix
    THEN SubSeq(s, 1, Len(s) - Len(suffix))
    ELSE s

\* strconv.Atoi: an optional sign and at least one digit, nothing else;
\* 0 and an error otherwise.
Atoi(s) ==
    LET signed == Len(s) > 0 /\ s[1] \in {"+", "-"}
        body == IF signed THEN Tail(s) ELSE s
    IN  IF body # << >> /\ AllDigits(body)
        THEN [err |-> FALSE,
              val |-> IF signed /\ s[1] = "-" THEN 0 - DecimalValue(body)
                      ELSE DecimalValue(body)]
        ELSE [err |-> TRUE, val |-> 0]

\* strconv.ParseFloat on plain decimals with at most two fractional digits,
\* in hundredths; 0 and an error on anything that is no number.
ParseFloat(s) ==
    LET dots == { i \in 1..Len(s) : s[i] = "." }
        dot == IF dots = {} THEN Len(s) + 1 ELSE CHOOSE i \in dots : TRUE
        whole == SubSeq(s, 1, dot - 1)
        frac == SubSeq(s, dot + 1, Len(s))
    IN  IF /\ Cardinality(dots) <= 1
           /\ AllDigits(whole) /\ AllDigits(frac)
           /\ Len(whole) + Len(frac) > 0
           /\ Len(frac) <= 2
        THEN [err |-> FALSE,
              val |-> 100 * DecimalValue(whole)
                      + (IF Len(frac) = 1 THEN 10 ELSE 1) * DecimalValue(frac)]
        ELSE [err |-> TRUE, val |-> 0]

RECURSIVE Gcd(_, _)
Gcd(a, b) == IF b = 0 THEN a ELSE Gcd(b, a % b)

\* price / float64(vcpus), for vcpus >= 1, as a fraction in lowest terms.
Quotient(price, vcpus) ==
    LET g == Gcd(price, vcpus)
    IN  [n |-> price \div g, d |-> vcpus \div g]

\* a < b on two such quotients.
QuotientLess(a, b) == a.n * b.d < b.n * a.d

\* The inner loop of insertion sort: the index at position j of perm moves
\* left while its key is less than the key before it.
RECURSIVE SiftLeft(_, _, _)
SiftLeft(perm, keys, j) ==
    IF j > 1 /\ QuotientLess(keys[perm[j]], keys[perm[j - 1]])
    THEN SiftLeft([perm EXCEPT ![j] = perm[j - 1], ![j - 1] = perm[j]],
                  keys, j - 1)
    ELSE perm

RECURSIVE InsertionSortFrom(_, _, _)
InsertionSortFrom(perm, keys, i) ==
    IF i > Len(perm) THEN perm
    ELSE InsertionSortFrom(SiftLeft(perm, keys, i), keys, i + 1)

\* A mutant of SortSlice: the slice is left as it is.
SortSliceSkipped(s, keys) == s

\* sort.Slice(s, less) with less(i, j) comparing keys: on the slices of at
\* most twelve elements of this model the library runs insertion sort.
SortSlice(s, keys) ==
    LET perm == InsertionSortFrom([i \in 1..Len(s) |-> i], keys, 2)
    IN  [i \in 1..Len(s) |-> s[perm[i]]]

----
\* The pricing endpoint: offers and response bodies.

\* An element of the Prices array as json.Unmarshal delivers it.
Offer(type, vcpus, rate, price) ==
    [InstanceType |-> type, VCPUS |-> vcpus, Memory |-> "16 GiB",
     SpotSavingRate |-> rate, SpotPrice |-> price]

\* Offers the pricing endpoint may serve: savings above, at and below the
\* threshold, without a percent sign, not a number; prices that tie per
\* vCPU and one that is not a number.
OfferM5 == Offer("m5", 4, << "6", "0", "%" >>, << "0", ".", "0", "8" >>)

OfferC5 == Offer("c5", 4, << "5", "1", "%" >>, << "0", ".", "0", "4" >>)

OfferR5 == Offer("r5", 8, << "7", "0" >>, << "0", ".", "0", "8" >>)

OfferT3 == Offer("t3", 4, << "5", "0", "%" >>, << "0", ".", "0", "2" >>)

OfferT4 == Offer("t4", 4, << "4", "5", "%" >>, << "0", ".", "0", "1" >>)

OfferX1 == Offer("x1", 8, << "n", "/", "a" >>, << "0", ".", "0", "1" >>)

OfferZ1 == Offer("z1", 4, << "8", "0", "%" >>, << "N", "/", "A" >>)

Catalog == { OfferM5, OfferC5, OfferR5, OfferT3, OfferT4, OfferX1, OfferZ1 }

\* What a request to the pricing endpoint comes back with: a transport
\* error, a body that is no JSON, or a body with a Prices array.
NetError == [kind |-> "neterr", Prices |-> << >>]

Malformed == [kind |-> "malformed", Prices |-> << >>]

Body(prices) == [kind |-> "ok", Prices |-> prices]

NoResponse == [kind |-> "none", Prices |-> << >>]

\* The bodies getSpotDeals is checked on alone.
Bodies ==
    { NetError, Malformed } \cup { Body(p) : p \in SeqOf(Catalog, MaxOffers) }

\* The responses served to the runs of the pipeline: a failure, offers that
\* all fall below the threshold, two offers out of order, one offer that
\* ties the best of the two.
PipelineResponses ==
    { NetError, Body(<< OfferT4 >>), Body(<< OfferM5, OfferC5 >>),
      Body(<< OfferR5 >>) }

----
\* getSpotDeals, first iteration (lines 136-181).

\* A mutant of HighSavings: the threshold itself passes.
HighSavingsAtLeast(instance) ==
    LET savingsRate == Atoi(TrimSuffix(instance.SpotSavingRate, << "%" >>))
    IN  ~savingsRate.err /\ savingsRate.val >= SavingsThreshold

\* err == nil && savingsRate > 50
HighSavings(instance) ==
    LET savingsRate == Atoi(TrimSuffix(instance.SpotSavingRate, << "%" >>))
    IN  ~savingsRate.err /\ savingsRate.val > SavingsThreshold

\* price / float64(VCPUS) with the parse error dropped, as the comparator
\* of the sort and the best-deal construction compute it.
PricePerVCPU(instance) ==
    Quotient(ParseFloat(instance.SpotPrice).val, instance.VCPUS)

\* A mutant of getSpotDeals: a response without a qualifying offer is
\* returned as an error.
getSpotDealsEmptyIsError(resp) ==
    LET highSavingsInstances == SelectSeq(resp.Prices, HighSavings)
        keys == [i \in 1..Len(highSavingsInstances) |->
                    PricePerVCPU(highSavingsInstances[i])]
    IN  IF resp.kind # "ok" \/ highSavingsInstances = << >>
        THEN [err |-> TRUE, deals |-> << >>]
        ELSE [err |-> FALSE, deals |-> SortSlice(highSavingsInstances, keys)]

\* A transport error and a body that is no JSON are returned as errors.
getSpotDeals(resp) ==
    IF resp.kind # "ok" THEN [err |-> TRUE, deals |-> << >>]
    ELSE LET highSavingsInstances == SelectSeq(resp.Prices, HighSavings)
             keys == [i \in 1..Len(highSavingsInstances) |->
                         PricePerVCPU(highSavingsInstances[i])]
         IN  [err |-> FALSE, deals |-> SortSlice(highSavingsInstances, keys)]

----
\* getSpotDeals, second iteration (lines 296-327).

\* savingsRate, _ := strconv.Atoi(...); savingsRate > 50
HighSavings2(instance) ==
    LET savingsRate == Atoi(TrimSuffix(instance.SpotSavingRate, << "%" >>))
    IN  savingsRate.val > SavingsThreshold

\* instance.PricePerVCPU = price / float64(instance.VCPUS)
WithPricePerVCPU(instance) ==
    [InstanceType |-> instance.InstanceType, VCPUS |-> instance.VCPUS,
     Memory |-> instance.Memory, SpotSavingRate |-> instance.SpotSavingRate,
     SpotPrice |-> instance.SpotPrice,
     PricePerVCPU |-> Quotient(ParseFloat(instance.SpotPrice).val,
                               instance.VCPUS)]

\* A transport error returns nil; a body that is no JSON leaves Prices
\* empty, since the error of json.Unmarshal is dropped.
getSpotDeals2(resp) ==
    IF resp.kind # "ok" THEN << >>
    ELSE LET kept == SelectSeq(resp.Prices, HighSavings2)
             highSavingsInstances ==
                 [i \in 1..Len(kept) |-> WithPricePerVCPU(kept[i])]
             keys == [i \in 1..Len(kept) |->
                         highSavingsInstances[i].PricePerVCPU]
         IN  SortSlice(highSavingsInstances, keys)

----
\* The region directory and fetchRegions.

ap == << 1, 16 >>

eu == << 5, 21 >>

us == << 21, 19 >>

lz == << 12, 26 >>

\* a < b on Go strings: byte-wise lexicographic order.
RECURSIVE StringLess(_, _)
StringLess(a, b) ==
    IF b = << >> THEN FALSE
    ELSE IF a = << >> THEN TRUE
    ELSE IF a[1] # b[1] THEN a[1] < b[1]
    ELSE StringLess(Tail(a), Tail(b))

RECURSIVE SiftString(_, _)
SiftString(s, j) ==
    IF j > 1 /\ StringLess(s[j], s[j - 1])
    THEN SiftString([s EXCEPT ![j] = s[j - 1], ![j - 1] = s[j]], j - 1)
    ELSE s

RECURSIVE SortStringsFrom(_, _)
SortStringsFrom(s, i) ==
    IF i > Len(s) THEN s ELSE SortStringsFrom(SiftString(s, i), i + 1)

\* sort.Strings
SortStrings(s) == SortStringsFrom(s, 2)

\* The elements of a set in the order a range over a Go map happens to
\* visit them; every use sorts the result.
RECURSIVE RangeOrder(_)
RangeOrder(S) ==
    IF S = {} THEN << >>
    ELSE LET x == CHOOSE y \in S : TRUE
         IN  << x >> \o RangeOrder(S \ {x})

\* One entry of locations.json: its key and the code and type of its value.
Location(name, code, type) == [name |-> name, code |-> code, type |-> type]

\* What the directory endpoint comes back with.
DirectoryOf(entries) == [kind |-> "ok", entries |-> entries]

DirectoryDown == [kind |-> "neterr", entries |-> {}]

DirectoryGarbled == [kind |-> "malformed", entries |-> {}]

Directories ==
    { DirectoryOf({ Location(us, us, "AWS Region"),
                    Location(lz, lz, "AWS Local Zone"),
                    Location(ap, ap, "AWS Region") }),
      DirectoryDown,
      DirectoryGarbled }

\* A document in which two keys carry the same code.
RepeatedCodeDirectories ==
    { DirectoryOf({ Location(ap, us, "AWS Region"),
                    Location(us, us, "AWS Region") }) }

\* fetchRegions, first iteration (lines 184-214): region.Code of every
\* entry of type "AWS Region", sorted.
fetchRegions(doc) ==
    IF doc.kind # "ok" THEN [err |-> TRUE, regionCodes |-> << >>]
    ELSE LET primary == { e \in doc.entries : e.type = "AWS Region" }
             picked == RangeOrder(primary)
         IN  [err |-> FALSE,
              regionCodes |-> SortStrings([i \in 1..Len(picked) |->
                                              picked[i].code])]

\* fetchRegions, second iteration (lines 330-351): the keys of the entries
\* of type "AWS Region", sorted; only a transport error is fatal, a body
\* that does not decode leaves the map empty.
fetchRegions2(doc) ==
    IF doc.kind = "neterr" THEN [err |-> TRUE, regionCodes |-> << >>]
    ELSE LET primary == { e \in doc.entries : e.type = "AWS Region" }
             picked == RangeOrder(primary)
         IN  [err |-> FALSE,
              regionCodes |-> SortStrings([i \in 1..Len(picked) |->
                                              picked[i].name])]

----
\* SpotData, its JSON form and the output file.

\* time.Now().UTC().Format(time.RFC3339): the instant cut to whole seconds.
FormatRFC3339(t) == t \div TicksPerSecond

EmptyMap == [r \in {} |-> << >>]

\* m[k] = v on a Go map.
MapPut(m, k, v) ==
    [x \in (DOMAIN m) \cup {k} |-> IF x = k THEN v ELSE m[x]]

\* encoding/json on a SpotData: the keys of the regions object come out
\* sorted, whatever the order of insertion.
Marshal(data) ==
    LET keys == SortStrings(RangeOrder(DOMAIN data.Regions))
    IN  [last_updated |-> data.LastUpdated,
         regions |-> [i \in 1..Len(keys) |->
                         << keys[i], data.Regions[keys[i]] >>],
         global_top_5 |-> data.GlobalTop5]

\* The output file: missing, created and still empty, or holding a document.
NoFile == [state |-> "missing"]

EmptyFile == [state |-> "empty"]

FileWith(doc) == [state |-> "written", doc |-> doc]

\* Whether the persisted document has a member for region r, and its value.
HasEntry(f, r) ==
    /\ f.state = "written"
    /\ \E i \in 1..Len(f.doc.regions) : f.doc.regions[i][1] = r

EntryOf(f, r) ==
    LET i == CHOOSE j \in 1..Len(f.doc.regions) : f.doc.regions[j][1] = r
    IN  f.doc.regions[i][2]

----
\* The first iteration: fetchSpotData (lines 75-133) and main (lines 57-72).

Tasks == 1..Len(regions)

NoDirectory == [kind |-> "none", entries |-> {}]

NewSpotData(t) ==
    [LastUpdated |-> FormatRFC3339(t), Regions |-> EmptyMap,
     GlobalTop5 |-> << >>]

\* Whether the request of task i came back with a body that parsed.
Succeeded(i) == response[i].kind = "ok"

Failed(i) == response[i].kind \in {"neterr", "malformed"}

\* The GlobalDeal built from deals[0] (lines 103-112).
BestDeal(ds, r) ==
    LET price == ParseFloat(ds[1].SpotPrice).val
    IN  [InstanceType |-> ds[1].InstanceType, VCPUS |-> ds[1].VCPUS,
         Memory |-> ds[1].Memory, SpotPrice |-> price,
         PricePerVCPU |-> Quotient(price, ds[1].VCPUS), Region |-> r]

\* A mutant of InstallSnapshot: a region without offers is not recorded.
InstallSnapshotIfAny(data, r, ds) ==
    IF ds = << >> THEN data
    ELSE [data EXCEPT !.Regions = MapPut(@, r, ds)]

\* spotData.Regions[r] = deals
InstallSnapshot(data, r, ds) == [data EXCEPT !.Regions = MapPut(@, r, ds)]

\* A mutant of MutexFree: Lock returns at once.
MutexIgnored == TRUE

\* mu.Lock() returns only when no goroutine holds mu.
MutexFree == mu = 0

\* A mutant of WaitGroupDone: Wait returns at once.
WaitGroupSkipped == TRUE

\* wg.Wait() returns only when the counter is zero.
WaitGroupDone == wg = 0

\* A mutant of DoneOnError: wg.Done() is not deferred and the error return
\* leaves without it.
DoneOnErrorSkipped(n) == n

\* The deferred wg.Done() runs on the error return as well (lines 93-98).
DoneOnError(n) == n - 1

\* globalDeals[:5] when there are more than five, globalDeals otherwise.
SelectTop(pool) == IF Len(pool) > TopN THEN SubSeq(pool, 1, TopN) ELSE pool

\* State of a run that has dispatched nothing yet.
ResetTasks(n) ==
    /\ next' = 1
    /\ tpc' = [i \in 1..n |-> "idle"]
    /\ deals' = [i \in 1..n |-> << >>]
    /\ response' = [i \in 1..n |-> NoResponse]
    /\ snap' = [i \in 1..n |-> << >>]
    /\ entered' = [i \in 1..n |-> 0]
    /\ attempts' = [i \in 1..n |-> 0]
    /\ mu' = 0
    /\ wg' = 0
    /\ globalDeals' = << >>
    /\ prevResp' = response
    /\ prevDir' = directory
    /\ oldFile' = file
    /\ runs' = runs + 1
    /\ changed' = FALSE

\* A run begins on a directory document of docs: fetchRegions, then the
\* SpotData stamped with time.Now() (lines 76-87).  log.Fatalf ends the run
\* when fetchRegions fails.
StartRunOn(docs) ==
    /\ pc \in {"start", "exit", "fatal"}
    /\ runs < MaxRuns
    /\ \E doc \in docs, t \in clock..MaxClock :
          LET got == fetchRegions(doc)
          IN  /\ directory' = doc
              /\ clock' = t
              /\ regions' = got.regionCodes
              /\ ResetTasks(Len(got.regionCodes))
              /\ spotData' = NewSpotData(t)
              /\ pc' = IF got.err THEN "fatal" ELSE "loop"
    /\ UNCHANGED << file, q_in, q_out, q_out2 >>

StartRun == StartRunOn(Directories)

\* One pass of the range loop: wg.Add(1) and the go statement (lines 90-92).
Spawn ==
    /\ pc = "loop"
    /\ next <= Len(regions)
    /\ wg' = wg + 1
    /\ tpc' = [tpc EXCEPT ![next] = "fetch"]
    /\ next' = next + 1
    /\ UNCHANGED << pc, clock, directory, regions, deals, response, snap,
                    entered, attempts, mu, spotData, globalDeals, file, oldFile,
                    prevResp, prevDir, changed, runs, q_in, q_out, q_out2 >>

\* getSpotDeals returns to the goroutine (lines 94-98); on an error the
\* goroutine returns and its deferred wg.Done() runs.
Fetch(i) ==
    /\ tpc[i] = "fetch"
    /\ \E resp \in PipelineResponses :
          LET got == getSpotDeals(resp)
          IN  /\ response' = [response EXCEPT ![i] = resp]
              /\ deals' = [deals EXCEPT ![i] = got.deals]
              /\ tpc' = [tpc EXCEPT ![i] = IF got.err THEN "done" ELSE "lock"]
              /\ wg' = IF got.err THEN DoneOnError(wg) ELSE wg
    /\ attempts' = [attempts EXCEPT ![i] = @ + 1]
    /\ UNCHANGED << pc, clock, directory, regions, next, snap, entered, mu,
                    spotData, globalDeals, file, oldFile, prevResp, prevDir, changed,
                    runs, q_in, q_out, q_out2 >>

\* mu.Lock() (line 99)
Lock(i) ==
    /\ tpc[i] = "lock"
    /\ MutexFree
    /\ mu' = i
    /\ entered' = [entered EXCEPT ![i] = @ + 1]
    /\ tpc' = [tpc EXCEPT ![i] = "install"]
    /\ UNCHANGED << pc, clock, directory, regions, next, deals, response,
                    snap, attempts, wg, spotData, globalDeals, file, oldFile,
                    prevResp, prevDir, changed, runs, q_in, q_out, q_out2 >>

\* spotData.Regions[r] = deals (lines 100-101)
Install(i) ==
    /\ tpc[i] = "install"
    /\ spotData' = InstallSnapshot(spotData, regions[i], deals[i])
    /\ tpc' = [tpc EXCEPT ![i] = IF Len(deals[i]) > 0 THEN "read" ELSE "unlock"]
    /\ UNCHANGED << pc, clock, directory, regions, next, deals, response,
                    snap, entered, attempts, mu, wg, globalDeals, file, oldFile,
                    prevResp, prevDir, changed, runs, q_in, q_out, q_out2 >>

\* append reads the slice globalDeals ... (line 105)
ReadPool(i) ==
    /\ tpc[i] = "read"
    /\ snap' = [snap EXCEPT ![i] = globalDeals]
    /\ tpc' = [tpc EXCEPT ![i] = "append"]
    /\ UNCHANGED << pc, clock, directory, regions, next, deals, response,
                    entered, attempts, mu, wg, spotData, globalDeals, file, oldFile,
                    prevResp, prevDir, changed, runs, q_in, q_out, q_out2 >>

\* ... and the slice with the deal added is assigned back (lines 105-112).
AppendPool(i) ==
    /\ tpc[i] = "append"
    /\ globalDeals' = Append(snap[i], BestDeal(deals[i], regions[i]))
    /\ tpc' = [tpc EXCEPT ![i] = "unlock"]
    /\ UNCHANGED << pc, clock, directory, regions, next, deals, response,
                    snap, entered, attempts, mu, wg, spotData, file, oldFile, prevResp, prevDir,
                    changed, runs, q_in, q_out, q_out2 >>

\* mu.Unlock() (line 114)
Unlock(i) ==
    /\ tpc[i] = "unlock"
    /\ mu' = 0
    /\ tpc' = [tpc EXCEPT ![i] = "return"]
    /\ UNCHANGED << pc, clock, directory, regions, next, deals, response,
                    snap, entered, attempts, wg, spotData, globalDeals, file, oldFile,
                    prevResp, prevDir, changed, runs, q_in, q_out, q_out2 >>

\* The goroutine returns and its deferred wg.Done() runs (line 93).
Done(i) ==
    /\ tpc[i] = "return"
    /\ wg' = wg - 1
    /\ tpc' = [tpc EXCEPT ![i] = "done"]
    /\ UNCHANGED << pc, clock, directory, regions, next, deals, response,
                    snap, entered, attempts, mu, spotData, globalDeals, file, oldFile,
                    prevResp, prevDir, changed, runs, q_in, q_out, q_out2 >>

\* wg.Wait() returns (line 118).
Wait ==
    /\ pc = "loop"
    /\ next > Len(regions)
    /\ WaitGroupDone
    /\ pc' = "sort"
    /\ UNCHANGED << clock, directory, regions, next, tpc, deals, response,
                    snap, entered, attempts, mu, wg, spotData, globalDeals, file,
                    oldFile, prevResp, prevDir, changed, runs, q_in, q_out, q_out2 >>

\* sort.Slice(globalDeals, ...) by PricePerVCPU (lines 121-123)
SortPool ==
    /\ pc = "sort"
    /\ globalDeals' =
          SortSlice(globalDeals,
                    [i \in 1..Len(globalDeals) |-> globalDeals[i].PricePerVCPU])
    /\ pc' = "select"
    /\ UNCHANGED << clock, directory, regions, next, tpc, deals, response,
                    snap, entered, attempts, mu, wg, spotData, file, oldFile, prevResp, prevDir,
                    changed, runs, q_in, q_out, q_out2 >>

\* The top five are selected and fetchSpotData returns (lines 126-132).
Select ==
    /\ pc = "select"
    /\ spotData' = [spotData EXCEPT !.GlobalTop5 = SelectTop(globalDeals)]
    /\ pc' = "create"
    /\ UNCHANGED << clock, directory, regions, next, tpc, deals, response,
                    snap, entered, attempts, mu, wg, globalDeals, file, oldFile,
                    prevResp, prevDir, changed, runs, q_in, q_out, q_out2 >>

\* os.Create truncates the file, or fails and log.Fatal ends the run
\* (lines 61-64).
Create ==
    /\ pc = "create"
    /\ \/ file' = EmptyFile /\ pc' = "encode"
       \/ file' = file /\ pc' = "fatal"
    /\ UNCHANGED << clock, directory, regions, next, tpc, deals, response,
                    snap, entered, attempts, mu, wg, spotData, globalDeals, oldFile,
                    prevResp, prevDir, changed, runs, q_in, q_out, q_out2 >>

\* encoder.Encode writes the document, or fails and log.Fatal ends the run
\* with the file as os.Create left it (lines 67-71).
Encode ==
    /\ pc = "encode"
    /\ \/ file' = FileWith(Marshal(spotData)) /\ pc' = "exit"
       \/ file' = file /\ pc' = "fatal"
    /\ UNCHANGED << clock, directory, regions, next, tpc, deals, response,
                    snap, entered, attempts, mu, wg, spotData, globalDeals, oldFile,
                    prevResp, prevDir, changed, runs, q_in, q_out, q_out2 >>

Init ==
    /\ pc = "start"
    /\ clock = 0
    /\ directory = NoDirectory
    /\ regions = << >>
    /\ next = 1
    /\ tpc = << >>
    /\ deals = << >>
    /\ response = << >>
    /\ snap = << >>
    /\ entered = << >>
    /\ attempts = << >>
    /\ mu = 0
    /\ wg = 0
    /\ spotData = NewSpotData(0)
    /\ globalDeals = << >>
    /\ file = NoFile
    /\ oldFile = NoFile
    /\ prevResp = << >>
    /\ prevDir = NoDirectory
    /\ changed = FALSE
    /\ runs = 0
    /\ q_in = NoResponse
    /\ q_out = [err |-> FALSE, deals |-> << >>]
    /\ q_out2 = << >>

Next ==
    \/ StartRun
    \/ Spawn
    \/ \E i \in Tasks : Fetch(i)
    \/ \E i \in Tasks : Lock(i)
    \/ \E i \in Tasks : Install(i)
    \/ \E i \in Tasks : ReadPool(i)
    \/ \E i \in Tasks : AppendPool(i)
    \/ \E i \in Tasks : Unlock(i)
    \/ \E i \in Tasks : Done(i)
    \/ Wait
    \/ SortPool
    \/ Select
    \/ Create
    \/ Encode

Spec == Init /\ [][Next]_vars

\* The scheduler runs every goroutine that can take a step, main included,
\* and every request to the pricing endpoint comes back.
Fairness ==
    /\ WF_vars(Spawn)
    /\ WF_vars(\E i \in Tasks : Fetch(i))
    /\ WF_vars(\E i \in Tasks : Lock(i))
    /\ WF_vars(\E i \in Tasks : Install(i))
    /\ WF_vars(\E i \in Tasks : ReadPool(i))
    /\ WF_vars(\E i \in Tasks : AppendPool(i))
    /\ WF_vars(\E i \in Tasks : Unlock(i))
    /\ WF_vars(\E i \in Tasks : Done(i))
    /\ WF_vars(Wait)
    /\ WF_vars(SortPool)
    /\ WF_vars(Select)

\* One run of main from the initial state.
StartRunOnce == runs = 0 /\ StartRun

NextOnce ==
    \/ StartRunOnce
    \/ Spawn
    \/ \E i \in Tasks : Fetch(i)
    \/ \E i \in Tasks : Lock(i)
    \/ \E i \in Tasks : Install(i)
    \/ \E i \in Tasks : ReadPool(i)
    \/ \E i \in Tasks : AppendPool(i)
    \/ \E i \in Tasks : Unlock(i)
    \/ \E i \in Tasks : Done(i)
    \/ Wait
    \/ SortPool
    \/ Select
    \/ Create
    \/ Encode

SpecFair == Init /\ [][NextOnce]_vars /\ Fairness

\* The first iteration on a directory in which two entries carry one code.
StartRunRepeated == StartRunOn(RepeatedCodeDirectories)

NextRepeated ==
    \/ StartRunRepeated
    \/ Spawn
    \/ \E i \in Tasks : Fetch(i)
    \/ \E i \in Tasks : Lock(i)
    \/ \E i \in Tasks : Install(i)
    \/ \E i \in Tasks : ReadPool(i)
    \/ \E i \in Tasks : AppendPool(i)
    \/ \E i \in Tasks : Unlock(i)
    \/ \E i \in Tasks : Done(i)
    \/ Wait
    \/ SortPool
    \/ Select
    \/ Create
    \/ Encode

SpecRepeated == Init /\ [][NextRepeated]_vars

----
\* Properties of the first iteration, checked under Spec.

\* fetchSpotData is past wg.Wait().
PostJoinLabels == {"sort", "select", "create", "encode", "exit"}

PostJoin == pc \in PostJoinLabels

\* Every goroutine of the run was started and has run its wg.Done().
AllTasksDone ==
    /\ next > Len(regions)
    /\ \A i \in Tasks : tpc[i] = "done"

\* Task i is between mu.Lock() and mu.Unlock().
InSection(i) == tpc[i] \in {"install", "read", "append", "unlock"}

\* Region r had a snapshot with at least one offer in the file the run found.
OldNonEmpty(r) == HasEntry(oldFile, r) /\ EntryOf(oldFile, r) # << >>

\* The directory request of the run failed, or its body did not parse.
DirectoryFailed == directory.kind \in {"neterr", "malformed"}

\* The run has ended, normally or by log.Fatal.
RunEnded == pc \in {"exit", "fatal"}

\* The output file holds the dataset of this run.
Published == file = FileWith(Marshal(spotData))

\* C1: carry-over.  When a run completes, every region whose fetch failed
\* in it and whose snapshot in the previously persisted dataset was not
\* empty has, in the dataset persisted after the run, the old entry.
CarryOver ==
    pc = "exit" =>
        \A i \in Tasks :
            (Failed(i) /\ OldNonEmpty(regions[i])) =>
                /\ HasEntry(file, regions[i])
                /\ EntryOf(file, regions[i]) = EntryOf(oldFile, regions[i])

\* C3: mutual exclusion without lost updates.  At most one task is between
\* Lock and Unlock; a task at a read or write of the map or the pool holds
\* mu; no task acquires mu twice; after the join the map holds the snapshot
\* and the pool the best deal of every task whose fetch succeeded, and the
\* pool holds nothing else.
MutualExclusion ==
    /\ \A i, j \in Tasks : (InSection(i) /\ InSection(j)) => i = j
    /\ \A i \in Tasks : InSection(i) => mu = i
    /\ \A i \in Tasks : entered[i] <= 1
    /\ PostJoin =>
          /\ \A i \in Tasks :
                Succeeded(i) =>
                    /\ regions[i] \in DOMAIN spotData.Regions
                    /\ spotData.Regions[regions[i]] = deals[i]
                    /\ entered[i] = 1
                    /\ deals[i] # << >> =>
                          \E k \in 1..Len(globalDeals) :
                              globalDeals[k] = BestDeal(deals[i], regions[i])
          /\ Len(globalDeals) =
                Cardinality({ i \in Tasks : Succeeded(i) /\ deals[i] # << >> })

\* Two tasks succeeded with offers, each went through the section once, and
\* both deals are in the pool after the join.
MutualExclusionWitness ==
    /\ pc = "sort"
    /\ Len(globalDeals) = 2
    /\ \A i \in Tasks : Succeeded(i) /\ entered[i] = 1
    /\ globalDeals[1].Region # globalDeals[2].Region

\* C4: join barrier.  A step that sorts the pool, selects the top five,
\* returns from fetchSpotData or changes the output file is taken only when
\* every dispatched task has finished.
JoinBarrier ==
    [][ (\/ pc' \in PostJoinLabels
         \/ file' # file
         \/ spotData'.GlobalTop5 # spotData.GlobalTop5) => AllTasksDone ]_vars

\* A run with one failed and one successful task wrote the file.
JoinBarrierWitness ==
    /\ pc = "exit"
    /\ file.state = "written"
    /\ \E i, j \in Tasks : Failed(i) /\ Succeeded(j)

\* C5: presence iff success.  After aggregation a dispatched region is a
\* key of the run's mapping exactly when its fetch succeeded, whichever
\* other fetches failed.
PresenceIffSuccess ==
    PostJoin =>
        \A i \in Tasks :
            regions[i] \in DOMAIN spotData.Regions <=> Succeeded(i)

\* One fetch failed and its region is absent; the other succeeded with no
\* qualifying offer and its region is present.
PresenceIffSuccessWitness ==
    /\ pc = "create"
    /\ \E i, j \in Tasks :
          /\ Failed(i) /\ regions[i] \notin DOMAIN spotData.Regions
          /\ Succeeded(j) /\ deals[j] = << >>
          /\ regions[j] \in DOMAIN spotData.Regions

\* C10: overwrite-on-empty.  When a run completes, every region whose old
\* snapshot was not empty and whose fetch succeeded with no qualifying
\* offer has an empty entry in the dataset persisted after the run.
OverwriteOnEmpty ==
    pc = "exit" =>
        \A i \in Tasks :
            (OldNonEmpty(regions[i]) /\ Succeeded(i) /\ deals[i] = << >>) =>
                /\ HasEntry(file, regions[i])
                /\ EntryOf(file, regions[i]) = << >>

\* A run replaced a region's offers by an empty entry.
OverwriteOnEmptyWitness ==
    /\ pc = "exit"
    /\ \E i \in Tasks :
          /\ OldNonEmpty(regions[i]) /\ Succeeded(i) /\ deals[i] = << >>
          /\ HasEntry(file, regions[i])
          /\ EntryOf(file, regions[i]) = << >>

\* C16: offer-level reconciliation.  When a run completes, every region that
\* had an entry in the dataset the run found and whose fetch returned at
\* least one offer has, in the persisted dataset, every offer of this run
\* and every old offer whose instance type this run did not return.
OfferReconciliation ==
    pc = "exit" =>
        \A i \in Tasks :
            (HasEntry(oldFile, regions[i]) /\ Succeeded(i) /\ deals[i] # << >>) =>
                /\ HasEntry(file, regions[i])
                /\ \A k \in 1..Len(deals[i]) :
                      deals[i][k] \in Range(EntryOf(file, regions[i]))
                /\ \A old \in Range(EntryOf(oldFile, regions[i])) :
                      (\A k \in 1..Len(deals[i]) :
                          deals[i][k].InstanceType # old.InstanceType) =>
                          old \in Range(EntryOf(file, regions[i]))

\* C18: exactly one fetch attempt per region per run.  No task issues its
\* request twice; once the join is passed, every region of the list has had
\* one request and no more, and has at most one entry in the candidate pool.
OneFetchPerRegion ==
    /\ \A i \in Tasks : attempts[i] <= 1
    /\ PostJoin =>
          \A r \in Range(regions) :
              /\ Cardinality({ i \in Tasks :
                                 regions[i] = r /\ attempts[i] > 0 }) = 1
              /\ Cardinality({ k \in 1..Len(globalDeals) :
                                 globalDeals[k].Region = r }) <= 1

\* The WaitGroup counter is the number of goroutines started and not yet
\* past their wg.Done(); a goroutine past mu.Unlock() does not hold mu; past
\* the join every goroutine has had its request answered and is done.
TaskAccounting ==
    /\ wg = Cardinality({ i \in Tasks : tpc[i] \notin {"idle", "done"} })
    /\ \A i \in Tasks : tpc[i] \in {"return", "done"} => mu # i
    /\ PostJoin => \A i \in Tasks : tpc[i] = "done" /\ attempts[i] = 1

\* fetchSpotData has returned to main with every goroutine done.
Returned == pc = "create" /\ AllTasksDone /\ wg = 0 /\ mu = 0

\* C19: termination and deadlock freedom of aggregation.  Every goroutine
\* signals the WaitGroup once, on the error return as on the normal one, and
\* none finishes holding mu; aggregation does not pass the join while a
\* request is unanswered; and when the scheduler is weakly fair and every
\* request is answered, a call of fetchSpotData that has its region list
\* returns.
Termination ==
    /\ []TaskAccounting
    /\ (pc = "loop") ~> Returned

\* fetchSpotData returned after one request failed and the other brought
\* an offer.
TerminationWitness ==
    /\ Returned
    /\ \E i, j \in Tasks : Failed(i) /\ Succeeded(j) /\ deals[j] # << >>

\* The candidate pool when the first n goroutines append in the order of
\* the region list.
RECURSIVE PoolInListOrder(_)
PoolInListOrder(n) ==
    IF n = 0 THEN << >>
    ELSE IF Succeeded(n) /\ deals[n] # << >>
         THEN Append(PoolInListOrder(n - 1), BestDeal(deals[n], regions[n]))
         ELSE PoolInListOrder(n - 1)

\* The top five when the goroutines complete in the order of the region
\* list.
TopInListOrder ==
    LET pool == PoolInListOrder(Len(regions))
    IN  SelectTop(SortSlice(pool, [k \in 1..Len(pool) |->
                                     pool[k].PricePerVCPU]))

\* C20: schedule independence.  For the region list and the answers of a
\* run, the dataset fetchSpotData returns is the one it returns when the
\* goroutines complete in the order of the list: the same mapping and the
\* same global_top_5, entries of equal price per vCPU in the same order.
ScheduleIndependence ==
    pc = "create" =>
        /\ DOMAIN spotData.Regions = { regions[i] : i \in { j \in Tasks : Succeeded(j) } }
        /\ \A i \in Tasks : Succeeded(i) => spotData.Regions[regions[i]] = deals[i]
        /\ spotData.GlobalTop5 = TopInListOrder

\* C13: atomic publication.  Whenever the output file held a dataset when
\* the run started, a reader finds in it, at every point of the run, either
\* that dataset or the complete dataset of this run.
AtomicPublication ==
    oldFile.state = "written" => (file = oldFile \/ Published)

\* C14: write failure is fatal and non-destructive.  A run that found a
\* dataset in the output file, got its region list and ended without the
\* file holding its own dataset ended in the failure state, and the file is
\* as the run found it.
WriteFailureFatal ==
    (RunEnded /\ oldFile.state = "written" /\ ~DirectoryFailed /\ ~Published) =>
        (pc = "fatal" /\ file = oldFile)

----
\* The second iteration: fetchSpotData (lines 264-293), main (lines 247-261),
\* readExistingData, writeDataToFile and dataChanged (lines 354-375).

\* The zero SpotData: its last_updated is the empty string, which no
\* formatted instant equals (its nil map and nil slices marshal as null).
ZeroSpotData ==
    [LastUpdated |-> 0 - 1, Regions |-> EmptyMap, GlobalTop5 |-> << >>]

\* json.Unmarshal of a persisted document into a SpotData.
Unmarshal(doc) ==
    [LastUpdated |-> doc.last_updated,
     Regions |-> [r \in { doc.regions[i][1] : i \in 1..Len(doc.regions) } |->
                     (CHOOSE m \in Range(doc.regions) : m[1] = r)[2]],
     GlobalTop5 |-> doc.global_top_5]

\* readExistingData: the zero SpotData when the file is missing or does
\* not parse; main drops the error.
readExistingData(f) ==
    IF f.state = "written" THEN Unmarshal(f.doc) ELSE ZeroSpotData

\* A mutant of dataChanged: only the regions are compared.
dataChangedRegionsOnly(old, new) ==
    Marshal(old).regions # Marshal(new).regions

\* string(oldData) != string(newData) on the two json.Marshal results
dataChanged(old, new) == Marshal(old) # Marshal(new)

\* A run begins: fetchRegions, then the SpotData stamped with time.Now()
\* (lines 265-271).
StartRun2 ==
    /\ pc \in {"start", "exit", "fatal"}
    /\ runs < MaxRuns
    /\ \E doc \in Directories, t \in clock..MaxClock :
          LET got == fetchRegions2(doc)
          IN  /\ directory' = doc
              /\ clock' = t
              /\ regions' = got.regionCodes
              /\ ResetTasks(Len(got.regionCodes))
              /\ spotData' = NewSpotData(t)
              /\ pc' = IF got.err THEN "fatal" ELSE "loop"
    /\ UNCHANGED << file, q_in, q_out, q_out2 >>

\* One pass of the loop over regions (lines 274-278).
FetchNext2 ==
    /\ pc = "loop"
    /\ next <= Len(regions)
    /\ \E resp \in PipelineResponses :
          LET instances == getSpotDeals2(resp)
          IN  /\ response' = [response EXCEPT ![next] = resp]
              /\ deals' = [deals EXCEPT ![next] = instances]
              /\ spotData' = InstallSnapshot(spotData, regions[next], instances)
              /\ globalDeals' = globalDeals \o instances
    /\ attempts' = [attempts EXCEPT ![next] = @ + 1]
    /\ next' = next + 1
    /\ UNCHANGED << pc, clock, directory, regions, tpc, snap, entered, mu,
                    wg, file, oldFile, prevResp, prevDir, changed, runs,
                    q_in, q_out, q_out2 >>

\* allInstances is sorted, its first five become GlobalTop5 and
\* fetchSpotData returns (lines 281-292).
Rank2 ==
    /\ pc = "loop"
    /\ next > Len(regions)
    /\ LET sorted ==
              SortSlice(globalDeals,
                        [i \in 1..Len(globalDeals) |->
                            globalDeals[i].PricePerVCPU])
       IN  /\ globalDeals' = sorted
           /\ spotData' = [spotData EXCEPT !.GlobalTop5 = SelectTop(sorted)]
    /\ pc' = "compare"
    /\ UNCHANGED << clock, directory, regions, next, tpc, deals, response,
                    snap, entered, attempts, mu, wg, file, oldFile, prevResp, prevDir,
                    changed, runs, q_in, q_out, q_out2 >>

\* main reads the file and compares (lines 252-260).
Compare2 ==
    /\ pc = "compare"
    /\ changed' = dataChanged(readExistingData(file), spotData)
    /\ pc' = IF changed' THEN "open" ELSE "exit"
    /\ UNCHANGED << clock, directory, regions, next, tpc, deals, response,
                    snap, entered, attempts, mu, wg, spotData, globalDeals, file,
                    oldFile, prevResp, prevDir, runs, q_in, q_out, q_out2 >>

\* ioutil.WriteFile opens the file truncating it; when that fails the
\* error is dropped and main goes on (lines 365-368).
Open2 ==
    /\ pc = "open"
    /\ \/ file' = EmptyFile /\ pc' = "write"
       \/ file' = file /\ pc' = "exit"
    /\ UNCHANGED << clock, directory, regions, next, tpc, deals, response,
                    snap, entered, attempts, mu, wg, spotData, globalDeals, oldFile,
                    prevResp, prevDir, changed, runs, q_in, q_out, q_out2 >>

\* ioutil.WriteFile writes the document; when that fails the error is
\* dropped as well.
Write2 ==
    /\ pc = "write"
    /\ \/ file' = FileWith(Marshal(spotData))
       \/ file' = file
    /\ pc' = "exit"
    /\ UNCHANGED << clock, directory, regions, next, tpc, deals, response,
                    snap, entered, attempts, mu, wg, spotData, globalDeals, oldFile,
                    prevResp, prevDir, changed, runs, q_in, q_out, q_out2 >>

Next2 ==
    \/ StartRun2
    \/ FetchNext2
    \/ Rank2
    \/ Compare2
    \/ Open2
    \/ Write2

Spec2 == Init /\ [][Next2]_vars

----
\* Properties of the second iteration, checked under Spec2.

\* The regions of the run's mapping that have at least one offer.
NonEmptyRegions ==
    { r \in DOMAIN spotData.Regions : spotData.Regions[r] # << >> }

\* s[i].PricePerVCPU never decreases along s.
SortedByPricePerVCPU(s) ==
    \A i, j \in 1..Len(s) :
        i < j => ~QuotientLess(s[j].PricePerVCPU, s[i].PricePerVCPU)

\* fetchSpotData has returned its dataset.
Produced2 == pc \in {"compare", "open", "write", "exit"}

\* C2: idempotence.  When a run completes after a run that persisted its
\* dataset, and the directory and every pricing response were the same in
\* both, the later run reports changed = false and leaves the file as it
\* found it.
Idempotence ==
    (/\ pc = "exit"
     /\ runs >= 2
     /\ oldFile.state = "written"
     /\ directory.kind = "ok"
     /\ directory = prevDir
     /\ response = prevResp) =>
        (~changed /\ file = oldFile)

\* C6: the length of global_top_5 is min(5, number of regions of the run's
\* mapping with at least one offer), and global_top_5 is sorted in
\* non-decreasing order of price per vCPU.
TopLength ==
    Produced2 =>
        /\ Len(spotData.GlobalTop5) = Min(TopN, Cardinality(NonEmptyRegions))
        /\ SortedByPricePerVCPU(spotData.GlobalTop5)

\* C7: each entry of global_top_5 is the first offer of a region of the
\* run's mapping, no two entries belong to the same region, and no region
\* outside has a best offer strictly cheaper per vCPU than an entry.
TopOnePerRegion ==
    Produced2 =>
        \E owner \in [1..Len(spotData.GlobalTop5) -> NonEmptyRegions] :
            /\ \A k, l \in DOMAIN owner : owner[k] = owner[l] => k = l
            /\ \A k \in DOMAIN owner :
                  spotData.GlobalTop5[k] = spotData.Regions[owner[k]][1]
            /\ \A r \in NonEmptyRegions \ Range(owner) :
                  \A k \in DOMAIN owner :
                      ~QuotientLess(spotData.Regions[r][1].PricePerVCPU,
                                    spotData.GlobalTop5[k].PricePerVCPU)

\* C12: region-directory failure is fatal and leaves no trace.  In a run
\* whose directory request failed or whose directory did not parse, the run
\* is in its failure state, no per-region fetch was dispatched and the
\* output file is as the run found it.
DirectoryFailureFatal ==
    DirectoryFailed =>
        /\ pc = "fatal"
        /\ \A i \in Tasks : tpc[i] = "idle" /\ response[i] = NoResponse
        /\ file = oldFile

\* Two datasets differ in the timestamp, in the set of regions, in the
\* offer list of some region or in the top five.
Differs(old, new) ==
    \/ old.LastUpdated # new.LastUpdated
    \/ DOMAIN old.Regions # DOMAIN new.Regions
    \/ \E r \in DOMAIN old.Regions \cap DOMAIN new.Regions :
           \/ Len(old.Regions[r]) # Len(new.Regions[r])
           \/ \E k \in 1..Len(old.Regions[r]) :
                  old.Regions[r][k] # new.Regions[r][k]
    \/ Len(old.GlobalTop5) # Len(new.GlobalTop5)
    \/ \E k \in 1..Len(old.GlobalTop5) : old.GlobalTop5[k] # new.GlobalTop5[k]

\* C15: change detection.  The step in which main compares sets changed to
\* true exactly when the dataset of the run differs from the dataset read
\* from the file in the timestamp, in some region's offer list or in the
\* top five, and goes on to writeDataToFile exactly when changed is true;
\* the file changes only in a run in which changed is true.
ChangeDetection ==
    [][ /\ (pc = "compare" /\ pc' # "compare") =>
              /\ changed' <=> Differs(readExistingData(file), spotData)
              /\ pc' = "open" <=> changed'
        /\ file' # file => changed ]_vars

\* A second run in the same second as the first, with other offers for a
\* region: changed is true on the offer lists alone and the file holds the
\* new dataset.
ChangeDetectionWitness ==
    /\ pc = "exit"
    /\ runs = 2
    /\ changed
    /\ oldFile.state = "written"
    /\ oldFile.doc.last_updated = spotData.LastUpdated
    /\ directory.kind = "ok"
    /\ directory = prevDir
    /\ \E i \in Tasks : deals[i] # << >> /\ response[i] # prevResp[i]
    /\ file = FileWith(Marshal(spotData))

----
\* getSpotDeals alone: a response body is drawn and both iterations of the
\* function are applied to it.

InitDeals ==
    /\ pc = "call"
    /\ clock = 0
    /\ directory = NoDirectory
    /\ regions = << >>
    /\ next = 1
    /\ tpc = << >>
    /\ deals = << >>
    /\ response = << >>
    /\ snap = << >>
    /\ entered = << >>
    /\ attempts = << >>
    /\ mu = 0
    /\ wg = 0
    /\ spotData = NewSpotData(0)
    /\ globalDeals = << >>
    /\ file = NoFile
    /\ oldFile = NoFile
    /\ prevResp = << >>
    /\ prevDir = NoDirectory
    /\ changed = FALSE
    /\ runs = 0
    /\ q_in \in Bodies
    /\ q_out = [err |-> FALSE, deals |-> << >>]
    /\ q_out2 = << >>

CallGetSpotDeals ==
    /\ pc = "call"
    /\ q_out' = getSpotDeals(q_in)
    /\ q_out2' = getSpotDeals2(q_in)
    /\ pc' = "returned"
    /\ UNCHANGED << clock, directory, regions, next, tpc, deals, response,
                    snap, entered, attempts, mu, wg, spotData, globalDeals, file,
                    oldFile, prevResp, prevDir, changed, runs, q_in >>

NextDeals == CallGetSpotDeals

SpecDeals == InitDeals /\ [][NextDeals]_vars

----
\* Properties of getSpotDeals, checked under SpecDeals.

\* The savings rate, with or without its percent sign, is a decimal
\* integer greater than 50.
SavingsAbove50(rate) ==
    LET digits == TrimSuffix(rate, << "%" >>)
    IN  /\ digits # << >>
        /\ AllDigits(digits)
        /\ DecimalValue(digits) > 50

\* C8: savings threshold.  Every offer of a snapshot returned by
\* getSpotDeals, in either iteration, and the offer a leaderboard entry is
\* built from, has a savings rate that is an integer greater than 50; an
\* offer of the response at 50% or below, or with a rate that is no number,
\* is in no snapshot.
SavingsThresholdHolds ==
    pc = "returned" =>
        /\ \A k \in 1..Len(q_out.deals) :
              SavingsAbove50(q_out.deals[k].SpotSavingRate)
        /\ \A k \in 1..Len(q_out2) : SavingsAbove50(q_out2[k].SpotSavingRate)
        /\ \A k \in 1..Len(q_in.Prices) :
              ~SavingsAbove50(q_in.Prices[k].SpotSavingRate) =>
                  /\ q_in.Prices[k] \notin Range(q_out.deals)
                  /\ WithPricePerVCPU(q_in.Prices[k]) \notin Range(q_out2)
        /\ q_out.deals # << >> =>
              \E k \in 1..Len(q_in.Prices) :
                  /\ SavingsAbove50(q_in.Prices[k].SpotSavingRate)
                  /\ BestDeal(q_out.deals, us).InstanceType =
                         q_in.Prices[k].InstanceType

\* A response with an offer at 45%, one at exactly 50% and one at 60%:
\* only the last is returned.
SavingsThresholdWitness ==
    /\ pc = "returned"
    /\ q_in = Body(<< OfferT4, OfferT3, OfferM5 >>)
    /\ q_out.deals = << OfferM5 >>
    /\ Len(q_out2) = 1

\* C9: every snapshot getSpotDeals returns is in non-decreasing order of
\* price per vCPU, the spot price divided by the vCPU count.
SnapshotSorted ==
    pc = "returned" =>
        /\ \A i, j \in 1..Len(q_out.deals) :
              i < j => ~QuotientLess(PricePerVCPU(q_out.deals[j]),
                                     PricePerVCPU(q_out.deals[i]))
        /\ SortedByPricePerVCPU(q_out2)

\* Two qualifying offers served dearest first come back cheapest first.
SnapshotSortedWitness ==
    /\ pc = "returned"
    /\ q_in = Body(<< OfferM5, OfferC5 >>)
    /\ q_out.deals = << OfferC5, OfferM5 >>
    /\ q_out2 = << WithPricePerVCPU(OfferC5), WithPricePerVCPU(OfferM5) >>

\* The spot price or the savings percentage of the offer is no number.
MalformedNumber(instance) ==
    \/ ParseFloat(instance.SpotPrice).err
    \/ Atoi(TrimSuffix(instance.SpotSavingRate, << "%" >>)).err

\* C11: malformed numeric fields drop only the offer.  An offer of the
\* response whose spot price or savings percentage is no number is in no
\* snapshot and is not the offer the leaderboard entry is built from, and
\* every other offer of the response above the threshold is in the snapshot
\* of both iterations.
MalformedDropsOffer ==
    (pc = "returned" /\ q_in.kind = "ok") =>
        \A k \in 1..Len(q_in.Prices) :
            LET instance == q_in.Prices[k]
            IN  IF MalformedNumber(instance)
                THEN /\ instance \notin Range(q_out.deals)
                     /\ WithPricePerVCPU(instance) \notin Range(q_out2)
                     /\ q_out.deals # << >> =>
                           BestDeal(q_out.deals, us).InstanceType #
                               instance.InstanceType
                ELSE SavingsAbove50(instance.SpotSavingRate) =>
                        /\ instance \in Range(q_out.deals)
                        /\ WithPricePerVCPU(instance) \in Range(q_out2)

----
\* fetchRegions alone: a directory document is drawn and both iterations of
\* the function are applied to it.

\* Keys of locations.json (a JSON object has each key once).
LocationNames == { ap, eu, us }

\* Values of the code member; two entries may carry the same code.
LocationCodes == { ap, eu, us }

LocationTypes == { "AWS Region", "AWS Local Zone" }

\* The documents fetchRegions is checked on: the two failures, and every
\* object with some of the keys, each with a code and a type.
DirectoryDocuments ==
    { DirectoryDown, DirectoryGarbled } \cup
    { DirectoryOf({ Location(n, v[n][1], v[n][2]) : n \in DOMAIN v }) :
        v \in UNION { [N -> LocationCodes \X LocationTypes] :
                        N \in SUBSET LocationNames } }

InitRegions ==
    /\ pc = "call"
    /\ clock = 0
    /\ directory = NoDirectory
    /\ regions = << >>
    /\ next = 1
    /\ tpc = << >>
    /\ deals = << >>
    /\ response = << >>
    /\ snap = << >>
    /\ entered = << >>
    /\ attempts = << >>
    /\ mu = 0
    /\ wg = 0
    /\ spotData = NewSpotData(0)
    /\ globalDeals = << >>
    /\ file = NoFile
    /\ oldFile = NoFile
    /\ prevResp = << >>
    /\ prevDir = NoDirectory
    /\ changed = FALSE
    /\ runs = 0
    /\ q_in \in DirectoryDocuments
    /\ q_out = [err |-> FALSE, regionCodes |-> << >>]
    /\ q_out2 = [err |-> FALSE, regionCodes |-> << >>]

CallFetchRegions ==
    /\ pc = "call"
    /\ q_out' = fetchRegions(q_in)
    /\ q_out2' = fetchRegions2(q_in)
    /\ pc' = "returned"
    /\ UNCHANGED << clock, directory, regions, next, tpc, deals, response,
                    snap, entered, attempts, mu, wg, spotData, globalDeals, file,
                    oldFile, prevResp, prevDir, changed, runs, q_in >>

NextRegions == CallFetchRegions

SpecRegions == InitRegions /\ [][NextRegions]_vars

----
\* Properties of fetchRegions, checked under SpecRegions.

\* Each element is less than the one after it: sorted, none twice.
StrictlyAscending(s) == \A i \in 1..(Len(s) - 1) : StringLess(s[i], s[i + 1])

\* The entries of the document tagged as a primary region.
PrimaryEntries == { e \in q_in.entries : e.type = "AWS Region" }

\* C17: for every directory document that parses, fetchRegions returns
\* exactly the identifiers of the entries of type "AWS Region" (the code of
\* the entry in the first iteration, its key in the second), in strictly
\* ascending order: sorted and none twice.
RegionsSortedDeduplicated ==
    (pc = "returned" /\ q_in.kind = "ok") =>
        /\ Range(q_out.regionCodes) = { e.code : e \in PrimaryEntries }
        /\ StrictlyAscending(q_out.regionCodes)
        /\ Range(q_out2.regionCodes) = { e.name : e \in PrimaryEntries }
        /\ StrictlyAscending(q_out2.regionCodes)

====
